---- MODULE Spec2Model ----
(***************************************************************************)
(* Branch-name-to-address association engine of the credit union branch    *)
(* scraper (src/branch_scraper.py) and its Flask caller (src/app.py).      *)
(*                                                                         *)
(* Text is a sequence of one-character strings.  The regular expressions   *)
(* of the program are kept as syntax trees and run by a backtracking       *)
(* matcher with Python's priorities (leftmost start, greedy repetition,    *)
(* alternatives left to right).  A page is the parsed DOM tree: a sequence *)
(* of nodes in document order, each naming its parent.                     *)
(***************************************************************************)
EXTENDS Integers, Sequences, FiniteSets, TLC

(***************************************************************************)
(* Characters and strings (Python str)                                     *)
(***************************************************************************)
UC == <<"A","B","C","D","E","F","G","H","I","J","K","L","M",
        "N","O","P","Q","R","S","T","U","V","W","X","Y","Z">>

LC == <<"a","b","c","d","e","f","g","h","i","j","k","l","m",
        "n","o","p","q","r","s","t","u","v","w","x","y","z">>

Uppers == {UC[i] : i \in 1..26}

Lowers == {LC[i] : i \in 1..26}

Letters == Uppers \cup Lowers

Digits == {"0","1","2","3","4","5","6","7","8","9"}

\* \s
Spaces == {" ", "\n", "\t"}

\* \w
WordChars == Letters \cup Digits \cup {"_"}

\* every character the model's texts are written in
Chars == WordChars \cup Spaces \cup {",", ".", ";", ":", "-", "<", "!", "#"}

LowerOf == [c \in Uppers |-> LC[CHOOSE i \in 1..26 : UC[i] = c]]

UpperOf == [c \in Lowers |-> UC[CHOOSE i \in 1..26 : LC[i] = c]]

\* str.lower() on one character
ToLower(c) == IF c \in Uppers THEN LowerOf[c] ELSE c

\* str.upper() on one character
ToUpper(c) == IF c \in Lowers THEN UpperOf[c] ELSE c

\* str.lower()
Lower(s) == <<>> \o [i \in 1..Len(s) |-> ToLower(s[i])]

\* str.upper()
Upper(s) == <<>> \o [i \in 1..Len(s) |-> ToUpper(s[i])]

\* s[a-1:b] of Python, empty when the range is
Slice(s, a, b) == IF a > b THEN <<>> ELSE SubSeq(s, a, b)

\* s.startswith(w) at index i (1-based)
HasAt(s, w, i) ==
    /\ i >= 1
    /\ i + Len(w) - 1 <= Len(s)
    /\ \A k \in 1..Len(w) : s[i + k - 1] = w[k]

\* w in s
Contains(s, w) == \E i \in 1..(Len(s) - Len(w) + 1) : HasAt(s, w, i)

\* s.endswith(w)
EndsWith(s, w) == Len(w) <= Len(s) /\ HasAt(s, w, Len(s) - Len(w) + 1)

(***************************************************************************)
(* Folds over index ranges, by halving: the evaluator's stack stays        *)
(* shallow however long the text is.                                       *)
(***************************************************************************)
RECURSIVE FirstTrue(_, _, _)
\* the least k in a..b with f[k], or b + 1 when there is none
FirstTrue(f, a, b) ==
    IF a > b THEN b + 1
    ELSE IF a = b THEN (IF f[a] THEN a ELSE b + 1)
    ELSE LET mid == (a + b) \div 2
             l == FirstTrue(f, a, mid)
         IN  IF l <= mid THEN l ELSE FirstTrue(f, mid + 1, b)

RECURSIVE LastTrue(_, _, _)
\* the greatest k in a..b with f[k], or a - 1 when there is none
LastTrue(f, a, b) ==
    IF a > b THEN a - 1
    ELSE IF a = b THEN (IF f[a] THEN a ELSE a - 1)
    ELSE LET mid == (a + b) \div 2
             r == LastTrue(f, mid + 1, b)
         IN  IF r > mid THEN r ELSE LastTrue(f, a, mid)

RECURSIVE FlatSeq(_, _, _)
\* f[a] \o f[a+1] \o ... \o f[b]
FlatSeq(f, a, b) ==
    IF a > b THEN <<>>
    ELSE IF a = b THEN f[a]
    ELSE LET mid == (a + b) \div 2
         IN  FlatSeq(f, a, mid) \o FlatSeq(f, mid + 1, b)

Range(xs) == {xs[k] : k \in 1..Len(xs)}

RECURSIVE UniqFlat(_, _, _)
\* f[a] \o ... \o f[b] with each element kept where it first occurs
\* (no f[k] repeats an element)
UniqFlat(f, a, b) ==
    IF a > b THEN <<>>
    ELSE IF a = b THEN f[a]
    ELSE LET mid == (a + b) \div 2
             l == UniqFlat(f, a, mid)
             r == UniqFlat(f, mid + 1, b)
             seen == Range(l)
         IN  l \o SelectSeq(r, LAMBDA e : e \notin seen)

\* str.strip(): without its leading and trailing whitespace
Strip(s) ==
    LET nonspace == [k \in 1..Len(s) |-> s[k] \notin Spaces]
    IN  Slice(s, FirstTrue(nonspace, 1, Len(s)), LastTrue(nonspace, 1, Len(s)))

\* str.rstrip(): without its trailing whitespace
RStrip(s) == Slice(s, 1, LastTrue([k \in 1..Len(s) |-> s[k] \notin Spaces], 1, Len(s)))

\* str.rstrip(",")
RStripComma(s) == Slice(s, 1, LastTrue([k \in 1..Len(s) |-> s[k] # ","], 1, Len(s)))

\* how many characters of cs follow position i, at most max
RunLen(s, cs, i, max) ==
    LET hi == IF Len(s) < i + max - 1 THEN Len(s) ELSE i + max - 1
    IN  FirstTrue([k \in i..hi |-> s[k] \notin cs], i, hi) - i

\* str.split(): the maximal runs of non-whitespace, in order
Split(s) ==
    FlatSeq([k \in 1..Len(s) |->
                IF s[k] \notin Spaces /\ (k = 1 \/ s[k - 1] \in Spaces)
                THEN <<Slice(s, k, k + RunLen(s, Chars \ Spaces, k, Len(s)) - 1)>>
                ELSE <<>>],
            1, Len(s))

\* str.split(c): the pieces between the occurrences of the character c
SplitOn(s, c) ==
    LET pos == FlatSeq([k \in 1..Len(s) |-> IF s[k] = c THEN <<k>> ELSE <<>>], 1, Len(s))
        m == Len(pos)
    IN  [j \in 1..(m + 1) |->
            Slice(s, IF j = 1 THEN 1 ELSE pos[j - 1] + 1,
                     IF j = m + 1 THEN Len(s) ELSE pos[j] - 1)]

\* sep.join(parts)
Join(parts, sep) ==
    FlatSeq([k \in 1..Len(parts) |-> IF k = 1 THEN parts[1] ELSE sep \o parts[k]],
            1, Len(parts))

(***************************************************************************)
(* Regular expressions (Python re): syntax trees and a backtracking        *)
(* matcher.  Match(r, s, i) is the sequence of positions at which a match  *)
(* of r that starts at position i of s can end, in the order in which      *)
(* backtracking tries them, each position once.                            *)
(***************************************************************************)
\* one character of the set cs
RSet(cs) == [t |-> "set", cs |-> cs]

\* the literal w, compared ignoring case (re.IGNORECASE; w is lower case)
RLit(w) == [t |-> "lit", w |-> w]

\* r1 r2 ... rn
RCat(rs) == [t |-> "cat", rs |-> rs]

\* r1 | r2 | ... | rn
RAlt(rs) == [t |-> "alt", rs |-> rs]

\* r{lo,hi}, greedy
RRep(r, lo, hi) == [t |-> "rep", r |-> r, lo |-> lo, hi |-> hi]

\* \b
RWordB == [t |-> "wordb"]

\* $ (on a string that ends in no newline)
REnd == [t |-> "end"]

\* r* and r+: no upper limit, written as one no text reaches
RStar(r) == RRep(r, 0, 100000)

RPlus(r) == RRep(r, 1, 100000)

ROpt(r) == RRep(r, 0, 1)

IsWordAt(s, i) == i >= 1 /\ i <= Len(s) /\ s[i] \in WordChars

RECURSIVE Match(_, _, _)
RECURSIVE MatchCat(_, _, _, _, _)
RECURSIVE MatchEach(_, _, _)
RECURSIVE MatchRep(_, _, _, _)

Match(r, s, i) ==
    CASE r.t = "set" -> IF i <= Len(s) /\ s[i] \in r.cs THEN <<i + 1>> ELSE <<>>
      [] r.t = "lit" ->
            IF /\ i + Len(r.w) - 1 <= Len(s)
               /\ \A k \in 1..Len(r.w) : ToLower(s[i + k - 1]) = r.w[k]
            THEN <<i + Len(r.w)>> ELSE <<>>
      [] r.t = "end" -> IF i = Len(s) + 1 THEN <<i>> ELSE <<>>
      [] r.t = "wordb" -> IF IsWordAt(s, i - 1) # IsWordAt(s, i) THEN <<i>> ELSE <<>>
      [] r.t = "cat" -> MatchCat(r.rs, 1, Len(r.rs), s, <<i>>)
      [] r.t = "alt" -> UniqFlat([k \in 1..Len(r.rs) |-> Match(r.rs[k], s, i)], 1, Len(r.rs))
      [] r.t = "rep" ->
            IF r.r.t = "set"
            THEN LET n == RunLen(s, r.r.cs, i, r.hi)
                 IN  IF n < r.lo THEN <<>>
                     ELSE <<>> \o [k \in 1..(n - r.lo + 1) |-> i + n - k + 1]
            ELSE MatchRep(r, s, i, 0)

\* the parts rs[a..b] one after the other, the first started at each position
\* of starts in turn
MatchCat(rs, a, b, s, starts) ==
    IF starts = <<>> THEN <<>>
    ELSE IF a = b THEN MatchEach(rs[a], s, starts)
    ELSE LET mid == (a + b) \div 2
         IN  MatchCat(rs, mid + 1, b, s, MatchCat(rs, a, mid, s, starts))

MatchEach(r, s, starts) ==
    UniqFlat([k \in 1..Len(starts) |-> Match(r, s, starts[k])], 1, Len(starts))

\* n repetitions done, at position i: one more first (greedy), then stop here
MatchRep(r, s, i, n) ==
    (IF n < r.hi
     THEN LET more == SelectSeq(Match(r.r, s, i), LAMBDA e : e > i)
          IN  UniqFlat([k \in 1..Len(more) |-> MatchRep(r, s, more[k], n + 1)], 1, Len(more))
     ELSE <<>>)
    \o (IF n >= r.lo THEN <<i>> ELSE <<>>)

NoMatch == [found |-> FALSE, start |-> 0, end |-> 0]

\* the leftmost match that starts at position i or later: [start, end)
SearchFrom(r, s, i) ==
    LET at(k) == IF k > Len(s) + 1 THEN NoMatch
                 ELSE [found |-> TRUE, start |-> k, end |-> Head(Match(r, s, k))]
    IN  at(FirstTrue([j \in i..(Len(s) + 1) |-> Match(r, s, j) # <<>>], i, Len(s) + 1))

\* pattern.search(s)
Search(r, s) == SearchFrom(r, s, 1)

\* m.group(0)
Group0(s, m) == Slice(s, m.start, m.end - 1)

RECURSIVE SubFrom(_, _, _, _)
\* re.sub(r, repl, s) from position i on, for a pattern that matches no empty
\* string: the text up to the next match, repl, and on from the match's end
SubFrom(r, repl, s, i) ==
    LET rest(m) == IF ~m.found \/ m.start > Len(s) THEN Slice(s, i, Len(s))
                   ELSE Slice(s, i, m.start - 1) \o repl \o SubFrom(r, repl, s, m.end)
    IN  rest(SearchFrom(r, s, i))

Sub(r, repl, s) == SubFrom(r, repl, s, 1)

RECURSIVE CountFrom(_, _, _)
CountFrom(s, w, i) ==
    LET rest(k) == IF k > Len(s) THEN 0 ELSE 1 + CountFrom(s, w, k + Len(w))
    IN  rest(FirstTrue([j \in i..Len(s) |-> HasAt(s, w, j)], i, Len(s)))

\* s.count(w): occurrences that do not overlap
Count(s, w) == CountFrom(s, w, 1)

(***************************************************************************)
(* The program's patterns and word lists                                   *)
(***************************************************************************)
\* [\w\s\.\-]
AddrChars == WordChars \cup Spaces \cup {".", "-"}

\* [\s,]
SpaceComma == Spaces \cup {","}

\* \d{5}(?:-\d{4})?
ZipRe == RCat(<<RRep(RSet(Digits), 5, 5), ROpt(RCat(<<RSet({"-"}), RRep(RSet(Digits), 4, 4)>>))>>)

ADDRESS_WORDS ==
    <<<<"s", "t", "r", "e", "e", "t">>,
      <<"s", "t">>,
      <<"a", "v", "e", "n", "u", "e">>,
      <<"a", "v", "e">>,
      <<"b", "l", "v", "d">>,
      <<"b", "o", "u", "l", "e", "v", "a", "r", "d">>,
      <<"r", "o", "a", "d">>,
      <<"r", "d">>,
      <<"d", "r", "i", "v", "e">>,
      <<"d", "r">>,
      <<"l", "a", "n", "e">>,
      <<"l", "n">>,
      <<"w", "a", "y">>,
      <<"c", "o", "u", "r", "t">>,
      <<"c", "t">>,
      <<"p", "l", "a", "c", "e">>,
      <<"p", "l">>,
      <<"s", "u", "i", "t", "e">>,
      <<"s", "t", "e">>>>

ADDRESS_PATTERN ==
    RCat(<<RRep(RSet(Digits), 1, 6),
           RStar(RSet(AddrChars)),
           RAlt([k \in 1..Len(ADDRESS_WORDS) |-> RLit(ADDRESS_WORDS[k])]),
           RStar(RSet(AddrChars)),
           RPlus(RSet(SpaceComma)),
           RPlus(RSet(AddrChars)),
           RPlus(RSet(SpaceComma)),
           RWordB, RRep(RSet(Letters), 2, 2), RWordB,
           RPlus(RSet(SpaceComma)),
           ZipRe>>)

SIMPLE_ADDRESS ==
    RCat(<<RRep(RSet(AddrChars), 3, 80),
           ROpt(RSet({","})),
           RStar(RSet(Spaces)),
           RRep(RSet(Letters), 2, 2),
           RStar(RSet(Spaces)),
           ROpt(RSet({","})),
           RStar(RSet(Spaces)),
           ZipRe>>)

STREET_NUMBER ==
    RCat(<<RWordB, RRep(RSet(Digits), 1, 6), RPlus(RSet(Spaces)), RPlus(RSet(WordChars))>>)

STREET_SUFFIXES ==
    <<<<"s", "t">>,
      <<"s", "t", "r", "e", "e", "t">>,
      <<"a", "v", "e">>,
      <<"a", "v", "e", "n", "u", "e">>,
      <<"r", "d">>,
      <<"r", "o", "a", "d">>,
      <<"b", "l", "v", "d">>,
      <<"b", "o", "u", "l", "e", "v", "a", "r", "d">>,
      <<"l", "n">>,
      <<"l", "a", "n", "e">>,
      <<"d", "r">>,
      <<"d", "r", "i", "v", "e">>,
      <<"h", "w", "y">>,
      <<"h", "i", "g", "h", "w", "a", "y">>,
      <<"p", "k", "w", "y">>,
      <<"p", "a", "r", "k", "w", "a", "y">>,
      <<"c", "t">>,
      <<"c", "o", "u", "r", "t">>,
      <<"c", "i", "r">>,
      <<"c", "i", "r", "c", "l", "e">>,
      <<"t", "e", "r">>,
      <<"t", "e", "r", "r", "a", "c", "e">>,
      <<"w", "a", "y">>,
      <<"p", "l">>,
      <<"p", "l", "a", "c", "e">>>>

CITY_STATE_ZIP ==
    RCat(<<RSet({","}), RStar(RSet(Spaces)), RRep(RSet(Letters), 2, 2),
           RStar(RSet(Spaces)), ZipRe>>)

PENALTY_LABELS ==
    <<<<"h", "o", "u", "r", "s">>,
      <<"p", "h", "o", "n", "e">>,
      <<"f", "a", "x">>,
      <<"t", "o", "l", "l", " ", "f", "r", "e", "e">>>>

MIN_ADDRESS_SCORE == 8

(***************************************************************************)
(* Text Normalizer                                                         *)
(***************************************************************************)
\* normalize: lower case, each run of characters outside [a-z0-9] one space,
\* then " ".join(s.split()).strip()
normalize(text) ==
    IF text = <<>> THEN <<>>
    ELSE LET s == Sub(RPlus(RSet(Chars \ (Lowers \cup Digits))), <<" ">>, Lower(text))
         IN  Strip(Join(Split(s), <<" ">>))

\* _tokens: the set of the normalized text's words
tokens(s) ==
    LET words(n) == IF n # <<>> THEN Range(Split(n)) ELSE {}
    IN  words(normalize(s))

exact_normalized_match(target_norm, candidate_norm) == target_norm = candidate_norm

\* _fuzzy_match with threshold 0.85: inter / len(target_tok) >= 0.85
fuzzy_match(target_branch_name, candidate_text) ==
    LET ratio(target_tok, cand_tok) ==
            IF target_tok = {} THEN cand_tok # {}
            ELSE IF target_tok \subseteq cand_tok THEN TRUE
            ELSE 100 * Cardinality(target_tok \cap cand_tok) >= 85 * Cardinality(target_tok)
    IN  ratio(tokens(target_branch_name), tokens(candidate_text))

(***************************************************************************)
(* Address Scorer                                                          *)
(***************************************************************************)
\* " " + s + " " in " " + text.lower() + " " or text.lower().endswith(" " + s)
HasSuffixWord(text) ==
    LET low == Lower(text) IN
    \E k \in 1..Len(STREET_SUFFIXES) :
        \/ Contains(<<" ">> \o low \o <<" ">>, <<" ">> \o STREET_SUFFIXES[k] \o <<" ">>)
        \/ EndsWith(low, <<" ">> \o STREET_SUFFIXES[k])

\* any(s in text.lower() for s in STREET_SUFFIXES)
HasSuffixSubstring(text) ==
    \E k \in 1..Len(STREET_SUFFIXES) : Contains(Lower(text), STREET_SUFFIXES[k])

\* any(l in text.lower() for l in PENALTY_LABELS)
HasPenaltyLabel(text) ==
    \E k \in 1..Len(PENALTY_LABELS) : Contains(Lower(text), PENALTY_LABELS[k])

score_address_candidate(text, has_address_label_nearby) ==
    LET score(has_city_state_zip) ==
              (IF Search(STREET_NUMBER, text).found THEN 6 ELSE 0)
            + (IF HasSuffixWord(text) THEN 6 ELSE 0)
            + (IF has_city_state_zip THEN 6 ELSE 0)
            + (IF has_address_label_nearby THEN 4 ELSE 0)
            - (IF /\ HasPenaltyLabel(text)
                  /\ ~has_city_state_zip
                  /\ ~HasSuffixSubstring(text)
               THEN 10 ELSE 0)
            - (IF /\ Len(text) > 300
                  /\ Count(Lower(text), <<"h", "t", "t", "p">>)
                       + Count(Lower(text), <<"<">>) > 2
               THEN 10 ELSE 0)
    IN  IF text = <<>> \/ Len(text) > 500 THEN -20
        ELSE score(Search(CITY_STATE_ZIP, text).found)

(***************************************************************************)
(* Address Extractor / Parser.  An Optional[str] that is None is the empty *)
(* sequence: the program never tells None and "" apart (it tests "not x"). *)
(***************************************************************************)
extract_address_from_full_text(text) ==
    LET group(m) == IF m.found THEN Strip(Group0(text, m)) ELSE <<>>
        first(m) == IF m.found THEN group(m) ELSE group(Search(SIMPLE_ADDRESS, text))
    IN  first(Search(ADDRESS_PATTERN, text))

\* \bAddress:\s*
AddressLabelRe ==
    RCat(<<RWordB, RLit(<<"a", "d", "d", "r", "e", "s", "s", ":">>), RStar(RSet(Spaces))>>)

\* [.,;]+(\s*[.,;])+
PunctRunRe ==
    RCat(<<RPlus(RSet({".", ",", ";"})),
           RPlus(RCat(<<RStar(RSet(Spaces)), RSet({".", ",", ";"})>>))>>)

clean_address(raw) == Strip(Sub(PunctRunRe, <<",">>, Sub(AddressLabelRe, <<>>, raw)))

\* ,\s*([A-Z]{2})\s*(\d{5}(?:-\d{4})?)\s*$ : what follows group 1
ParseTailRe ==
    RCat(<<RSet({","}), RStar(RSet(Spaces)), RRep(RSet(Letters), 2, 2),
           RStar(RSet(Spaces)), ZipRe, RStar(RSet(Spaces)), REnd>>)

\* ^(.*) is greedy and matches any character: the longest group 1 the rest can
\* follow; its length, or -1 when the pattern does not match
ParseSplit(s) == LastTrue([k \in 0..Len(s) |-> Match(ParseTailRe, s, k + 1) # <<>>], 0, Len(s))

\* CITY_STATE_ZIP_PARSE.match(s): groups 1, 2 and 3
city_state_zip_parse(s) ==
    LET groups(k, a, b) ==
            [found |-> TRUE,
             g1 |-> Slice(s, 1, k),
             g2 |-> Slice(s, a, a + 1),
             g3 |-> RStrip(Slice(s, b, Len(s)))]
        from_state(k, a) == groups(k, a, Head(Match(RStar(RSet(Spaces)), s, a + 2)))
        from_comma(k) ==
            IF k < 0 THEN [found |-> FALSE, g1 |-> <<>>, g2 |-> <<>>, g3 |-> <<>>]
            ELSE from_state(k, Head(Match(RCat(<<RSet({","}), RStar(RSet(Spaces))>>),
                                          s, k + 1)))
    IN  from_comma(ParseSplit(s))

parse_address(address_full) ==
    LET stripped(raw_parts) == [k \in 1..Len(raw_parts) |-> Strip(raw_parts[k])]
        fields(m, street_part, parts) ==
            IF Contains(street_part, <<",">>) /\ Len(parts) >= 2
            THEN [street |-> Join(SubSeq(parts, 1, Len(parts) - 1), <<",", " ">>),
                  city |-> parts[Len(parts)],
                  state |-> Upper(Strip(m.g2)),
                  zip |-> Strip(m.g3)]
            ELSE [street |-> street_part, city |-> <<>>,
                  state |-> Upper(Strip(m.g2)), zip |-> Strip(m.g3)]
        split_street(m, street_part) ==
            fields(m, street_part, stripped(SplitOn(street_part, ",")))
        parsed(cleaned, m) ==
            IF m.found THEN split_street(m, RStripComma(Strip(m.g1)))
            ELSE [street |-> cleaned, city |-> <<>>, state |-> <<>>, zip |-> <<>>]
        parse(cleaned) == parsed(cleaned, city_state_zip_parse(Strip(cleaned)))
    IN  parse(clean_address(address_full))

(***************************************************************************)
(* Page and Element (BeautifulSoup).  A page is the sequence of its nodes  *)
(* in document order; node 1 is the BeautifulSoup object itself, the       *)
(* parent of the top-level nodes.  A node is a tag (name, class tokens) or *)
(* a text node (its string).  0 stands for None.                           *)
(***************************************************************************)
DocNode == [kind |-> "doc", name |-> "[document]", cls |-> <<>>, text |-> <<>>, parent |-> 0]

TagNode(name, cls, parent) ==
    [kind |-> "tag", name |-> name, cls |-> cls, text |-> <<>>, parent |-> parent]

TextNode(text, parent) ==
    [kind |-> "text", name |-> "", cls |-> <<>>, text |-> text, parent |-> parent]

IsTag(soup, n) == n >= 1 /\ n <= Len(soup) /\ soup[n].kind = "tag"

\* tag.parent
ParentOf(soup, n) == soup[n].parent

RECURSIVE IsUnder(_, _, _)
\* n is a descendant of a
IsUnder(soup, n, a) ==
    /\ n > a
    /\ ParentOf(soup, n) # 0
    /\ (ParentOf(soup, n) = a \/ IsUnder(soup, ParentOf(soup, n), a))

\* tag.descendants, in document order
Descendants(soup, a) ==
    SelectSeq(<<>> \o [k \in 1..Len(soup) |-> k], LAMBDA n : IsUnder(soup, n, a))

\* tag.get_text(separator, strip): the strings below the tag, each stripped and
\* the empty ones dropped when strip is set, joined by the separator
get_text(soup, a, separator, strip) ==
    LET string(n) == IF strip THEN Strip(soup[n].text) ELSE soup[n].text
        joined(kept) == Join([k \in 1..Len(kept) |-> string(kept[k])], separator)
    IN  joined(SelectSeq(Descendants(soup, a),
                         LAMBDA n : soup[n].kind = "text" /\ (strip => string(n) # <<>>)))

\* " ".join(cls).lower()
ClassJoined(soup, n) == Lower(Join(soup[n].cls, <<" ">>))

(***************************************************************************)
(* Branch Node Locator                                                     *)
(***************************************************************************)
BRANCH_HEADING_TAGS == {"h1", "h2", "h3", "h4", "strong", "span", "a", "div", "p"}

class_contains_heading_or_hdr(soup, tag) ==
    \/ Contains(ClassJoined(soup, tag), <<"h", "e", "a", "d", "i", "n", "g">>)
    \/ Contains(ClassJoined(soup, tag), <<"h", "d", "r">>)

get_candidate_text(soup, tag) == Strip(get_text(soup, tag, <<" ">>, TRUE))

\* candidates.sort(key=len of text) is stable: the first of the shortest
ShortestFirst(soup, candidates) ==
    LET shortest(lens) ==
            candidates[FirstTrue([k \in 1..Len(lens) |->
                                     \A j \in 1..Len(lens) : lens[k] <= lens[j]],
                                 1, Len(lens))]
    IN  shortest([k \in 1..Len(candidates) |-> Len(get_candidate_text(soup, candidates[k]))])

\* the tags the loop does not skip: a heading-like tag or class, and a text
\* that is neither empty nor longer than 200 characters
IsHeadingCandidate(soup, tag) ==
    LET fits(text) == text # <<>> /\ Len(text) <= 200
    IN  /\ IsTag(soup, tag)
        /\ (soup[tag].name \in BRANCH_HEADING_TAGS
              \/ class_contains_heading_or_hdr(soup, tag))
        /\ fits(get_candidate_text(soup, tag))

RECURSIVE find_branch_loop_without_return(_, _, _, _)
\* a faulty loop, without lines 87-88: an exact match is one more candidate
find_branch_loop_without_return(soup, target_branch_name, tag, candidates) ==
    LET compare(text) ==
            IF fuzzy_match(target_branch_name, text)
            THEN find_branch_loop_without_return(soup, target_branch_name, tag + 1,
                                                 Append(candidates, tag))
            ELSE find_branch_loop_without_return(soup, target_branch_name, tag + 1,
                                                 candidates)
    IN  IF tag > Len(soup)
        THEN (IF candidates = <<>> THEN 0 ELSE ShortestFirst(soup, candidates))
        ELSE IF ~IsHeadingCandidate(soup, tag)
        THEN find_branch_loop_without_return(soup, target_branch_name, tag + 1, candidates)
        ELSE compare(get_candidate_text(soup, tag))

RECURSIVE find_branch_loop(_, _, _, _)
\* the loop over soup.find_all(True) from node tag on, candidates collected so far
find_branch_loop(soup, target_branch_name, tag, candidates) ==
    LET compare(text) ==
            IF exact_normalized_match(normalize(target_branch_name), normalize(text))
            THEN tag
            ELSE IF fuzzy_match(target_branch_name, text)
            THEN find_branch_loop(soup, target_branch_name, tag + 1,
                                  Append(candidates, tag))
            ELSE find_branch_loop(soup, target_branch_name, tag + 1, candidates)
    IN  IF tag > Len(soup)
        THEN (IF candidates = <<>> THEN 0 ELSE ShortestFirst(soup, candidates))
        ELSE IF ~IsHeadingCandidate(soup, tag)
        THEN find_branch_loop(soup, target_branch_name, tag + 1, candidates)
        ELSE compare(get_candidate_text(soup, tag))

find_branch_node(soup, target_branch_name) ==
    IF normalize(target_branch_name) = <<>> THEN 0
    ELSE find_branch_loop(soup, target_branch_name, 2, <<>>)

(***************************************************************************)
(* Container Scoper                                                        *)
(***************************************************************************)
CONTAINER_TAGS == {"article", "section", "table", "tbody", "tr"}

CONTAINER_CLASS_KEYWORDS ==
    <<<<"r", "o", "w">>,
      <<"c", "o", "n", "t", "a", "i", "n", "e", "r">>,
      <<"w", "r", "a", "p">>,
      <<"c", "a", "r", "d">>,
      <<"e", "l", "e", "m", "e", "n", "t", "o", "r">>,
      <<"w", "i", "d", "g", "e", "t">>>>

is_container_like(soup, tag) ==
    \/ soup[tag].name \in CONTAINER_TAGS
    \/ \E k \in 1..Len(CONTAINER_CLASS_KEYWORDS) :
           Contains(ClassJoined(soup, tag), CONTAINER_CLASS_KEYWORDS[k])

has_content_beyond_heading(soup, container, branch_node) ==
    Len(Strip(get_text(soup, container, <<" ">>, TRUE)))
        > Len(get_candidate_text(soup, branch_node)) + 5

RECURSIVE container_walk_any_container(_, _, _)
\* a faulty walk, line 126 without _has_content_beyond_heading
container_walk_any_container(soup, branch_node, node) ==
    IF /\ node # 0
       /\ ParentOf(soup, node) # 0
       /\ soup[ParentOf(soup, node)].name \notin {"html", "body"}
    THEN IF is_container_like(soup, ParentOf(soup, node))
         THEN ParentOf(soup, node)
         ELSE container_walk_any_container(soup, branch_node, ParentOf(soup, node))
    ELSE IF /\ ParentOf(soup, branch_node) # 0
            /\ soup[ParentOf(soup, branch_node)].name \notin {"html", "body"}
         THEN ParentOf(soup, branch_node)
         ELSE 0

RECURSIVE container_walk(_, _, _)
\* the while loop of _find_branch_container at node, and the return after it
container_walk(soup, branch_node, node) ==
    IF /\ node # 0
       /\ ParentOf(soup, node) # 0
       /\ soup[ParentOf(soup, node)].name \notin {"html", "body"}
    THEN IF /\ is_container_like(soup, ParentOf(soup, node))
            /\ has_content_beyond_heading(soup, ParentOf(soup, node), branch_node)
         THEN ParentOf(soup, node)
         ELSE container_walk(soup, branch_node, ParentOf(soup, node))
    ELSE IF /\ ParentOf(soup, branch_node) # 0
            /\ soup[ParentOf(soup, branch_node)].name \notin {"html", "body"}
         THEN ParentOf(soup, branch_node)
         ELSE 0

find_branch_container(soup, branch_node) ==
    IF branch_node = 0 THEN 0 ELSE container_walk(soup, branch_node, branch_node)

\* the next sibling that is a tag, or None
next_element_sibling(soup, tag) ==
    LET or_none(n) == IF n > Len(soup) THEN 0 ELSE n
    IN  or_none(FirstTrue([k \in (tag + 1)..Len(soup) |->
                              ParentOf(soup, k) = ParentOf(soup, tag) /\ IsTag(soup, k)],
                          tag + 1, Len(soup)))

\* tag.find_previous_sibling(): the previous sibling that is a tag, or None
\* (in the pages below no text node stands between the blocks of a scope)
find_previous_sibling(soup, tag) ==
    LastTrue([k \in 1..(tag - 1) |->
                 ParentOf(soup, k) = ParentOf(soup, tag) /\ IsTag(soup, k)],
             1, tag - 1)

(***************************************************************************)
(* Scope Search Orchestrator                                               *)
(***************************************************************************)
\* one part per <br> ("\n") and per text node (its string)
VisibleParts(soup, el) ==
    LET parts(ds) ==
            FlatSeq([k \in 1..Len(ds) |->
                        IF IsTag(soup, ds[k]) /\ soup[ds[k]].name = "br"
                        THEN <<<<"\n">>>>
                        ELSE IF soup[ds[k]].kind = "text" THEN <<soup[ds[k]].text>>
                        ELSE <<>>],
                    1, Len(ds))
    IN  parts(Descendants(soup, el))

get_visible_text_with_br(soup, el) ==
    LET squeezed(text) ==
            Strip(Sub(RPlus(RSet(Spaces)), <<" ">>,
                      [k \in 1..Len(text) |-> IF text[k] = "\n" THEN " " ELSE text[k]]))
        joined(parts) ==
            squeezed(IF parts # <<>> THEN Join(parts, <<>>)
                     ELSE get_text(soup, el, <<" ">>, TRUE))
    IN  IF el = 0 THEN <<>> ELSE joined(VisibleParts(soup, el))

SCOPE_CANDIDATE_TAGS == {"p", "div", "td", "strong", "a", "span", "li"}

\* scope.find_all([...], recursive=True)
CandidateTags(soup, scope) ==
    SelectSeq(Descendants(soup, scope),
              LAMBDA n : IsTag(soup, n) /\ soup[n].name \in SCOPE_CANDIDATE_TAGS)

\* bool(prev and "address" in (prev.get_text() or "").lower())
HasLabel(soup, tag) ==
    LET labelled(prev) ==
            /\ prev # 0
            /\ Contains(Lower(get_text(soup, prev, <<>>, FALSE)),
                        <<"a", "d", "d", "r", "e", "s", "s">>)
    IN  labelled(find_previous_sibling(soup, tag))

\* the text the loop scores for a tag
CandidateText(soup, tag) == Strip(get_visible_text_with_br(soup, tag))

RECURSIVE best_candidate_loop_ungated(_, _, _, _, _)
\* a faulty loop, line 211 without "score >= MIN_ADDRESS_SCORE"
best_candidate_loop_ungated(soup, tags, k, best_score, best_text) ==
    LET keep(text, score) ==
            IF score > best_score
            THEN best_candidate_loop_ungated(soup, tags, k + 1, score, text)
            ELSE best_candidate_loop_ungated(soup, tags, k + 1, best_score, best_text)
        visit(text) ==
            IF text = <<>> \/ Len(text) < 10
            THEN best_candidate_loop_ungated(soup, tags, k + 1, best_score, best_text)
            ELSE keep(text, score_address_candidate(text, HasLabel(soup, tags[k])))
    IN  IF k > Len(tags) THEN best_text
        ELSE visit(CandidateText(soup, tags[k]))

RECURSIVE best_candidate_loop(_, _, _, _, _)
\* the loop over candidate_tags from the k-th on: best_text in the end
best_candidate_loop(soup, tags, k, best_score, best_text) ==
    LET keep(text, score) ==
            IF score >= MIN_ADDRESS_SCORE /\ score > best_score
            THEN best_candidate_loop(soup, tags, k + 1, score, text)
            ELSE best_candidate_loop(soup, tags, k + 1, best_score, best_text)
        visit(text) ==
            IF text = <<>> \/ Len(text) < 10
            THEN best_candidate_loop(soup, tags, k + 1, best_score, best_text)
            ELSE keep(text, score_address_candidate(text, HasLabel(soup, tags[k])))
    IN  IF k > Len(tags) THEN best_text
        ELSE visit(CandidateText(soup, tags[k]))

\* best_text after the loop over the candidate tags (None: the empty text)
best_node_candidate(soup, scope) ==
    best_candidate_loop(soup, CandidateTags(soup, scope), 1, -100, <<>>)

\* re.search(r"\d{5}(?:-\d{4})?", text)
HasZip(text) == Search(ZipRe, text).found

\* a faulty fallback, lines 221-225 as "if not best_text: best_text = extracted"
full_scope_fallback_node_first(full, best_text) ==
    LET choose(extracted) ==
            IF /\ extracted # <<>>
               /\ score_address_candidate(extracted, FALSE) >= MIN_ADDRESS_SCORE
               /\ best_text = <<>>
            THEN extracted
            ELSE best_text
    IN  IF Len(full) >= 15 THEN choose(extract_address_from_full_text(full))
        ELSE best_text

\* the fallback on the whole scope's text, given the loop's best_text
full_scope_fallback(full, best_text) ==
    LET choose(extracted) ==
            IF /\ extracted # <<>>
               /\ score_address_candidate(extracted, FALSE) >= MIN_ADDRESS_SCORE
            THEN IF HasZip(extracted)
                 THEN (IF best_text = <<>> \/ ~HasZip(best_text)
                       THEN extracted ELSE best_text)
                 ELSE IF best_text = <<>> THEN extracted
                 ELSE best_text
            ELSE best_text
    IN  IF Len(full) >= 15 THEN choose(extract_address_from_full_text(full))
        ELSE best_text

find_address_in_scope(soup, scope) ==
    IF scope = 0 THEN <<>>
    ELSE full_scope_fallback(Strip(get_text(soup, scope, <<" ">>, TRUE)),
                             best_node_candidate(soup, scope))

(***************************************************************************)
(* Branch Matcher                                                          *)
(***************************************************************************)
EmptyMatch ==
    [matched_branch_name |-> <<>>, address_full |-> <<>>,
     street |-> <<>>, city |-> <<>>, state |-> <<>>, zip |-> <<>>]

\* faulty lines 294-300: the address is stored and never parsed
FilledMatchUnparsed(matched_text, address_text) ==
    [matched_branch_name |-> matched_text,
     address_full |-> clean_address(address_text),
     street |-> <<>>, city |-> <<>>, state |-> <<>>, zip |-> <<>>]

\* lines 294-300: the record once address text was found
FilledMatch(matched_text, address_text) ==
    LET filled(parsed) ==
            [matched_branch_name |-> matched_text,
             address_full |-> clean_address(address_text),
             street |-> parsed.street,
             city |-> parsed.city,
             state |-> parsed.state,
             zip |-> parsed.zip]
    IN  filled(parse_address(address_text))

\* a faulty line 286: "if branch_container"
needs_sibling_search_always(address_text, container) == container # 0

\* line 286: if not address_full and branch_container
needs_sibling_search(address_text, container) == address_text = <<>> /\ container # 0

\* lines 285-289: the container first, its next element sibling only after
\* the container gave nothing
scoped_address(soup, container) ==
    LET in_sibling(sibling) ==
            IF sibling # 0 THEN find_address_in_scope(soup, sibling) ELSE <<>>
        in_container(address_text) ==
            IF needs_sibling_search(address_text, container)
            THEN in_sibling(next_element_sibling(soup, container))
            ELSE address_text
    IN  in_container(find_address_in_scope(soup, container))

match_branch_to_address(soup, target_branch_name) ==
    LET result(matched_text, address_text) ==
            IF address_text = <<>>
            THEN [EmptyMatch EXCEPT !.matched_branch_name = matched_text]
            ELSE FilledMatch(matched_text, address_text)
        located(branch_node) ==
            IF branch_node = 0 THEN EmptyMatch
            ELSE result(get_candidate_text(soup, branch_node),
                        scoped_address(soup, find_branch_container(soup, branch_node)))
    IN  located(find_branch_node(soup, target_branch_name))

(***************************************************************************)
(* Scrape Driver and the geocoding collaborator                            *)
(***************************************************************************)
\* None where a str is expected, and None where a float is
NoneText == <<"None">>

NoneCoord == "None"

\* a faulty line 309: a name that comes twice is kept once
strip_branch_names_unique(names) ==
    LET unique(stripped) ==
            UniqFlat([k \in 1..Len(stripped) |-> <<stripped[k]>>], 1, Len(stripped))
    IN  unique(SelectSeq(<<>> \o [k \in 1..Len(names) |-> Strip(names[k])],
                         LAMBDA n : n # <<>>))

\* line 309: [n.strip() for n in branch_names if n.strip()]
strip_branch_names(names) ==
    SelectSeq(<<>> \o [k \in 1..Len(names) |-> Strip(names[k])], LAMBDA n : n # <<>>)

\* lines 316-317: except requests.RequestException as e: return [{"error": str(e)}]
fetch_failure(message) == <<[error |-> message]>>

\* what the geocoding service does with one request
GeoOutcomes ==
    {[kind |-> "found", lat |-> "41.88", lon |-> "-87.63"],
     [kind |-> "not_found", lat |-> NoneCoord, lon |-> NoneCoord],
     [kind |-> "exception", lat |-> NoneCoord, lon |-> NoneCoord]}

\* a faulty geocode_address, without lines 356 and 360-361: the service's
\* exception leaves it
geocode_address_unguarded(outcome) ==
    IF outcome.kind = "found"
    THEN [raised |-> FALSE, lat |-> outcome.lat, lon |-> outcome.lon]
    ELSE [raised |-> outcome.kind = "exception", lat |-> NoneCoord, lon |-> NoneCoord]

\* geocode_address: (loc.latitude, loc.longitude), or (None, None) when the
\* service finds nothing or raises; raised tells whether an exception leaves it
geocode_address(outcome) ==
    IF outcome.kind = "found"
    THEN [raised |-> FALSE, lat |-> outcome.lat, lon |-> outcome.lon]
    ELSE [raised |-> FALSE, lat |-> NoneCoord, lon |-> NoneCoord]

\* lines 323-328
new_row(branch) ==
    [branch_name |-> branch, address |-> NoneText,
     latitude |-> NoneCoord, longitude |-> NoneCoord]

\* faulty lines 333-335: the longitude is never stored
branch_row_without_longitude(branch, match, outcome) ==
    LET row(address, coords) ==
            IF address # <<>>
            THEN [branch_name |-> branch, address |-> address,
                  latitude |-> coords.lat, longitude |-> NoneCoord]
            ELSE [branch_name |-> branch, address |-> NoneText,
                  latitude |-> NoneCoord, longitude |-> NoneCoord]
    IN  row(Strip(match.address_full), geocode_address(outcome))

\* lines 330-335: the row of one branch, given its match and what the
\* geocoder answers if it is asked
branch_row(branch, match, outcome) ==
    LET row(address, coords) ==
            IF address # <<>>
            THEN [branch_name |-> branch, address |-> address,
                  latitude |-> coords.lat, longitude |-> coords.lon]
            ELSE new_row(branch)
    IN  row(Strip(match.address_full), geocode_address(outcome))

\* line 331: whether the geocoder is asked
asks_geocoder(match) == Strip(match.address_full) # <<>>

(***************************************************************************)
(* Texts and pages the model runs on                                       *)
(***************************************************************************)
T_MainBranch == <<"M", "a", "i", "n", " ", "B", "r", "a", "n", "c", "h">>

T_MainBranchLoud == <<"M", "A", "I", "N", "-", "-", "b", "r", "a", "n", "c", "h", "!">>

T_BranchMain == <<"B", "r", "a", "n", "c", "h", " ", "M", "a", "i", "n">>

T_Office == <<"E", "l", "m", " ", "O", "f", "f", "i", "c", "e">>

T_Street == <<"1", "2", " ", "E", "l", "m", " ", "R", "o", "a", "d">>

T_CityStateZip == <<"A", "y", "r", ",", " ", "I", "L", " ", "6", "2", "7", "0", "1">>

T_FullAddress ==
    <<"1", "2", " ", "E", "l", "m", " ", "R", "o", "a", "d", ",", " ",
      "A", "y", "r", ",", " ", "I", "L", " ", "6", "2", "7", "0", "1">>

T_Label == <<"A", "d", "d", "r", "e", "s", "s", ":">>

T_Fax == <<"F", "a", "x", " ", "5", "5", "5", " ", "1", "2", "3", "4">>

T_Blank == <<" ", " ">>

T_Nowhere == <<"N", "o", "w", "h", "e", "r", "e">>

T_MainBranchPadded == <<" ", "M", "a", "i", "n", " ", "B", "r", "a", "n", "c", "h", " ">>

T_Dashes == <<"-", "-">>

T_Ws == <<"\n", " ">>

C_Card == <<<<"c", "a", "r", "d">>>>

C_Hdr == <<<<"l", "o", "c", "-", "h", "d", "r">>>>

\* the nodes of one child block of a container: its first node is node
\* number at, its parent node number parent
KidNodes(kind, at, parent) ==
    CASE kind = "street" -> <<TagNode("strong", <<>>, parent), TextNode(T_Street, at)>>
      [] kind = "csz" -> <<TagNode("strong", <<>>, parent), TextNode(T_CityStateZip, at)>>
      [] kind = "full" -> <<TagNode("strong", <<>>, parent), TextNode(T_FullAddress, at)>>
      [] kind = "label" -> <<TagNode("strong", <<>>, parent), TextNode(T_Label, at)>>
      [] kind = "fax" -> <<TagNode("p", <<>>, parent), TextNode(T_Fax, at)>>
      [] kind = "br" -> <<TagNode("p", <<>>, parent), TextNode(T_Street, at),
                          TagNode("br", <<>>, at), TextNode(T_CityStateZip, at)>>
      [] kind = "h4street" -> <<TagNode("h4", <<>>, parent), TextNode(T_Street, at)>>

RECURSIVE KidsNodes(_, _, _)
\* the child blocks kinds, one after the other, from node number at on
KidsNodes(kinds, at, parent) ==
    IF kinds = <<>> THEN <<>>
    ELSE KidNodes(Head(kinds), at, parent)
         \o KidsNodes(Tail(kinds), at + Len(KidNodes(Head(kinds), at, parent)), parent)

\* <div class="card"><h3>heading</h3> kids </div> from node number at on
CardNodes(heading, kinds, at, parent) ==
    <<TagNode("div", C_Card, parent), TagNode("h3", <<>>, at), TextNode(heading, at + 1)>>
    \o KidsNodes(kinds, at + 3, at)

\* a page of two cards, "Main Branch" and "Elm Office", with whitespace between
SitePage(kindsA, kindsB) ==
    LET a == CardNodes(T_MainBranch, kindsA, 2, 1)
    IN  <<DocNode>> \o a \o <<TextNode(T_Ws, 1)>>
        \o CardNodes(T_Office, kindsB, Len(a) + 3, 1)

\* the longest list of branch names a scrape is given
MaxNames == 2

RawNames == {T_MainBranchPadded, T_Office, T_Nowhere, T_Blank}

RECURSIVE SeqsUpTo(_, _)
\* the sequences of at most n elements of S
SeqsUpTo(S, n) ==
    IF n = 0 THEN {<<>>}
    ELSE SeqsUpTo(S, n - 1) \cup {Append(q, e) : q \in SeqsUpTo(S, n - 1), e \in S}

\* the pages a scrape is run on: one card has an address, the other only a
\* fax number
SitePages == {SitePage(<<"full">>, <<"fax">>), SitePage(<<"fax">>, <<"full">>)}

FetchErrors == {"ConnectTimeout", "404 Client Error"}

(***************************************************************************)
(* State                                                                   *)
(***************************************************************************)
VARIABLES
    pc,                \* where the call is
    site,              \* the page the web server holds
    branch_names_arg,  \* scrape_branches' argument branch_names
    branch_names,      \* branch_names after line 309
    soup,              \* the parsed page
    idx,               \* the loop's position in branch_names (1-based)
    results,           \* scrape_branches' results (its return value in the end)
    geo_outcomes,      \* per row of results, what the geocoder did ("skipped": not asked)
    matcher_calls,     \* calls of match_branch_to_address so far
    geocode_calls,     \* calls of geocode_address so far
    response,          \* the /scrape handler's response
    target,            \* match_branch_to_address' target_branch_name
    branch_node,       \* its local branch_node
    branch_container,  \* its local branch_container
    searched,          \* the scopes _find_address_in_scope was called on, in order
    finds,             \* what each of those calls returned
    address_found,     \* its local address_full
    out                \* its local out

vars == <<pc, site, branch_names_arg, branch_names, soup, idx, results, geo_outcomes,
          matcher_calls, geocode_calls, response, target, branch_node,
          branch_container, searched, finds, address_found, out>>

scrape_vars == <<site, branch_names_arg, branch_names, idx, results, geo_outcomes,
                 matcher_calls, geocode_calls, response>>

match_vars == <<target, branch_node, branch_container, searched, finds,
                address_found, out>>

NoResponse == [status |-> 0, body |-> <<>>]

MatchIdle ==
    /\ target = <<>>
    /\ branch_node = 0
    /\ branch_container = 0
    /\ searched = <<>>
    /\ finds = <<>>
    /\ address_found = <<>>
    /\ out = EmptyMatch

ScrapeIdle ==
    /\ site = <<DocNode>>
    /\ branch_names_arg = <<>>
    /\ branch_names = <<>>
    /\ idx = 0
    /\ results = <<>>
    /\ geo_outcomes = <<>>
    /\ matcher_calls = 0
    /\ geocode_calls = 0
    /\ response = NoResponse

(***************************************************************************)
(* POST /scrape (src/app.py) calling scrape_branches                       *)
(***************************************************************************)
\* the handler has split the names and calls scrape_branches(url, branch_names)
Init ==
    /\ pc = "start"
    /\ site \in SitePages
    /\ branch_names_arg \in SeqsUpTo(RawNames, MaxNames)
    /\ branch_names = <<>>
    /\ soup = <<DocNode>>
    /\ idx = 0
    /\ results = <<>>
    /\ geo_outcomes = <<>>
    /\ matcher_calls = 0
    /\ geocode_calls = 0
    /\ response = NoResponse
    /\ MatchIdle

\* lines 309-311
Start ==
    /\ pc = "start"
    /\ branch_names' = strip_branch_names(branch_names_arg)
    /\ pc' = IF strip_branch_names(branch_names_arg) = <<>> THEN "returned" ELSE "fetch"
    /\ UNCHANGED <<site, branch_names_arg, soup, idx, results, geo_outcomes,
                   matcher_calls, geocode_calls, response>>
    /\ UNCHANGED match_vars

\* lines 313-315 and 319-320: the page arrives and is parsed
FetchOk ==
    /\ pc = "fetch"
    /\ soup' = site
    /\ idx' = 1
    /\ results' = <<>>
    /\ pc' = "loop"
    /\ UNCHANGED <<site, branch_names_arg, branch_names, geo_outcomes,
                   matcher_calls, geocode_calls, response>>
    /\ UNCHANGED match_vars

\* faulty lines 316-317: the error is recorded and the scrape goes on, on an
\* empty page
FetchFailGoesOn ==
    /\ pc = "fetch"
    /\ \E message \in FetchErrors : results' = fetch_failure(message)
    /\ idx' = 1
    /\ pc' = "loop"
    /\ UNCHANGED <<site, branch_names_arg, branch_names, soup, geo_outcomes,
                   matcher_calls, geocode_calls, response>>
    /\ UNCHANGED match_vars

\* lines 316-317: requests.get or raise_for_status raises a RequestException
FetchFail ==
    /\ pc = "fetch"
    /\ \E message \in FetchErrors : results' = fetch_failure(message)
    /\ pc' = "returned"
    /\ UNCHANGED <<site, branch_names_arg, branch_names, soup, idx, geo_outcomes,
                   matcher_calls, geocode_calls, response>>
    /\ UNCHANGED match_vars

\* lines 322-336: one turn of the loop, the matcher and the geocoder included
ScrapeBranch ==
    /\ pc = "loop"
    /\ idx <= Len(branch_names)
    /\ LET turn(match) ==
               \E outcome \in GeoOutcomes :
                  /\ matcher_calls' = matcher_calls + 1
                  /\ IF asks_geocoder(match)
                     THEN /\ geocode_calls' = geocode_calls + 1
                          /\ geo_outcomes' = Append(geo_outcomes, outcome.kind)
                          /\ IF geocode_address(outcome).raised
                             THEN /\ pc' = "raised"
                                  /\ UNCHANGED <<results, idx>>
                             ELSE /\ results' =
                                         Append(results,
                                                branch_row(branch_names[idx], match, outcome))
                                  /\ idx' = idx + 1
                                  /\ pc' = "loop"
                     ELSE /\ geocode_calls' = geocode_calls
                          /\ geo_outcomes' = Append(geo_outcomes, "skipped")
                          /\ results' = Append(results, new_row(branch_names[idx]))
                          /\ idx' = idx + 1
                          /\ pc' = "loop"
       IN  turn(match_branch_to_address(soup, branch_names[idx]))
    /\ UNCHANGED <<site, branch_names_arg, branch_names, soup, response>>
    /\ UNCHANGED match_vars

\* line 338
Return ==
    /\ pc = "loop"
    /\ idx > Len(branch_names)
    /\ pc' = "returned"
    /\ UNCHANGED <<site, branch_names_arg, branch_names, soup, idx, results,
                   geo_outcomes, matcher_calls, geocode_calls, response>>
    /\ UNCHANGED match_vars

\* src/app.py lines 29-35
scrape_response(raised, res) ==
    IF raised THEN [status |-> 500, body |-> [error |-> "Exception"]]
    ELSE IF res # <<>> /\ "error" \in DOMAIN res[1] /\ res[1].error # ""
    THEN [status |-> 400, body |-> [error |-> res[1].error]]
    ELSE [status |-> 200, body |-> [branches |-> res]]

Respond ==
    /\ pc \in {"returned", "raised"}
    /\ response' = scrape_response(pc = "raised", results)
    /\ pc' = "responded"
    /\ UNCHANGED <<site, branch_names_arg, branch_names, soup, idx, results,
                   geo_outcomes, matcher_calls, geocode_calls>>
    /\ UNCHANGED match_vars

Next == Start \/ FetchOk \/ FetchFail \/ ScrapeBranch \/ Return \/ Respond

Spec == Init /\ [][Next]_vars

(***************************************************************************)
(* match_branch_to_address, statement by statement                         *)
(***************************************************************************)
\* lines 277-282: locate the branch node; "return out" when there is none
Locate ==
    /\ pc = "locate"
    /\ LET located(node) ==
               /\ branch_node' = node
               /\ IF node = 0
                  THEN /\ out' = EmptyMatch
                       /\ pc' = "done"
                  ELSE /\ out' = [EmptyMatch EXCEPT
                                     !.matched_branch_name = get_candidate_text(soup, node)]
                       /\ pc' = "container"
       IN  located(find_branch_node(soup, target))
    /\ UNCHANGED <<soup, target, branch_container, searched, finds, address_found>>
    /\ UNCHANGED scrape_vars

\* line 284
FindContainer ==
    /\ pc = "container"
    /\ branch_container' = find_branch_container(soup, branch_node)
    /\ pc' = "search"
    /\ UNCHANGED <<soup, target, branch_node, searched, finds, address_found, out>>
    /\ UNCHANGED scrape_vars

\* lines 285-288: search the container; then on to its next element sibling, if
\* the search gave nothing and there is a container with such a sibling
SearchContainer ==
    /\ pc = "search"
    /\ LET searched_with(address_text) ==
               /\ address_found' = address_text
               /\ searched' = Append(searched, branch_container)
               /\ finds' = Append(finds, address_text)
               /\ pc' = IF /\ needs_sibling_search(address_text, branch_container)
                           /\ next_element_sibling(soup, branch_container) # 0
                        THEN "sibling" ELSE "finish"
       IN  searched_with(find_address_in_scope(soup, branch_container))
    /\ UNCHANGED <<soup, target, branch_node, branch_container, out>>
    /\ UNCHANGED scrape_vars

\* line 289
SearchSibling ==
    /\ pc = "sibling"
    /\ LET searched_with(next_scope, address_text) ==
               /\ address_found' = address_text
               /\ searched' = Append(searched, next_scope)
               /\ finds' = Append(finds, address_text)
           search(next_scope) ==
               searched_with(next_scope, find_address_in_scope(soup, next_scope))
       IN  search(next_element_sibling(soup, branch_container))
    /\ pc' = "finish"
    /\ UNCHANGED <<soup, target, branch_node, branch_container, out>>
    /\ UNCHANGED scrape_vars

\* lines 291-300
FinishMatch ==
    /\ pc = "finish"
    /\ out' = IF address_found = <<>> THEN out
              ELSE FilledMatch(out.matched_branch_name, address_found)
    /\ pc' = "done"
    /\ UNCHANGED <<soup, target, branch_node, branch_container, searched, finds,
                   address_found>>
    /\ UNCHANGED scrape_vars

NextMatch == Locate \/ FindContainer \/ SearchContainer \/ SearchSibling \/ FinishMatch

(***************************************************************************)
(* The matcher on cards of every make: <div class="card"> with the heading *)
(* and up to MaxKids blocks, alone or followed by whitespace and a <div>   *)
(***************************************************************************)
\* the most blocks a card has after its heading
MaxKids == 2

KidKinds == {"street", "csz", "full", "label", "fax", "br", "h4street"}

\* what follows the card: nothing, or whitespace and a <div> of these blocks
SiblingKinds == {<<>>, <<"full">>, <<"fax">>}

\* the page: the card, and its sibling when sibling names blocks
ScopePage(kinds, sibling) ==
    LET page(card) ==
            IF sibling = <<>> THEN card
            ELSE card \o <<TextNode(T_Ws, 1), TagNode("div", <<>>, 1)>>
                      \o KidsNodes(sibling, Len(card) + 3, Len(card) + 2)
    IN  page(<<DocNode>> \o CardNodes(T_MainBranch, kinds, 2, 1))

ScopePages == {ScopePage(kinds, sibling) :
                  kinds \in SeqsUpTo(KidKinds, MaxKids), sibling \in SiblingKinds}

MatchTargets == {T_MainBranch, T_Nowhere}

InitMatch ==
    /\ pc = "locate"
    /\ soup \in ScopePages
    /\ target \in MatchTargets
    /\ branch_node = 0
    /\ branch_container = 0
    /\ searched = <<>>
    /\ finds = <<>>
    /\ address_found = <<>>
    /\ out = EmptyMatch
    /\ ScrapeIdle

SpecMatch == InitMatch /\ [][NextMatch]_vars

(***************************************************************************)
(* The locator on pages of up to MaxElems elements side by side            *)
(***************************************************************************)
\* the most elements a locator page has
MaxElems == 2

T_Mill == <<"M", "i", "l", "l">>

T_Mills == <<"M", "i", "l", "l", "s">>

ElemKinds == {"h3_loud", "h3_swap", "h3_dash", "h3_office", "li_loud", "hdr_loud"}

\* one element and its text, the element at node number at
ElemNodes(kind, at) ==
    CASE kind = "h3_loud" -> <<TagNode("h3", <<>>, 1), TextNode(T_MainBranchLoud, at)>>
      [] kind = "h3_swap" -> <<TagNode("h3", <<>>, 1), TextNode(T_BranchMain, at)>>
      [] kind = "h3_dash" -> <<TagNode("h3", <<>>, 1), TextNode(T_Dashes, at)>>
      [] kind = "h3_office" -> <<TagNode("h3", <<>>, 1), TextNode(T_Office, at)>>
      [] kind = "li_loud" -> <<TagNode("li", <<>>, 1), TextNode(T_MainBranchLoud, at)>>
      [] kind = "hdr_loud" -> <<TagNode("li", C_Hdr, 1), TextNode(T_MainBranchLoud, at)>>

LocatorPage(kinds) ==
    <<DocNode>> \o FlatSeq([k \in 1..Len(kinds) |-> ElemNodes(kinds[k], 2 * k)], 1, Len(kinds))

LocatorPages == {LocatorPage(kinds) : kinds \in SeqsUpTo(ElemKinds, MaxElems)}

LocatorTargets == {T_MainBranch, T_Dashes}

InitLocate ==
    /\ pc = "locate"
    /\ soup \in LocatorPages
    /\ target \in LocatorTargets
    /\ branch_node = 0
    /\ branch_container = 0
    /\ searched = <<>>
    /\ finds = <<>>
    /\ address_found = <<>>
    /\ out = EmptyMatch
    /\ ScrapeIdle

SpecLocate == InitLocate /\ [][Locate]_vars

(***************************************************************************)
(* The container scoper on headings under up to MaxDepth nested elements   *)
(***************************************************************************)
\* the most elements a heading is nested in
MaxDepth == 2

WrapperKinds == {"div", "card", "section", "body", "html"}

\* the text a wrapper holds after what is nested in it: 4 or 5 characters
WrapperTexts == {T_Mill, T_Mills}

Wrappers == [kind : WrapperKinds, text : WrapperTexts]

WrapperNode(w, parent) ==
    IF w.kind = "card" THEN TagNode("div", C_Card, parent) ELSE TagNode(w.kind, <<>>, parent)

\* ws[1] holds ws[2] holds ... holds <h3>Main Branch</h3>; after it each
\* wrapper's own text, the innermost wrapper's first
ChainPage(ws) ==
    LET d == Len(ws) IN
    <<DocNode>>
    \o [i \in 1..d |-> WrapperNode(ws[i], i)]
    \o <<TagNode("h3", <<>>, d + 1), TextNode(T_MainBranch, d + 2)>>
    \o [j \in 1..d |-> TextNode(ws[d + 1 - j].text, d + 2 - j)]

ContainerPages == {ChainPage(ws) : ws \in SeqsUpTo(Wrappers, MaxDepth)}

\* the call _find_branch_container(branch_node) with any element, or None
InitContainer ==
    /\ pc = "container"
    /\ soup \in ContainerPages
    /\ branch_node \in {0} \cup {n \in 1..Len(soup) : IsTag(soup, n)}
    /\ target = <<>>
    /\ branch_container = 0
    /\ searched = <<>>
    /\ finds = <<>>
    /\ address_found = <<>>
    /\ out = EmptyMatch
    /\ ScrapeIdle

SpecContainer == InitContainer /\ [][FindContainer]_vars

(***************************************************************************)
(* Properties of scrape_branches (Spec)                                    *)
(***************************************************************************)
\* scrape_branches has returned
Returned == pc \in {"returned", "responded"}

\* the page was fetched and parsed
Fetched == soup = site

\* the names supplied that are not blank, each trimmed, in the order supplied
RequestedNames ==
    LET named == SelectSeq(branch_names_arg, LAMBDA n : \E k \in 1..Len(n) : n[k] \notin Spaces)
    IN  [i \in 1..Len(named) |-> Strip(named[i])]

\* C1: when the page was fetched, scrape_branches returns one record per
\* requested name that is not blank, in the order supplied, a name that comes
\* twice has two records, and record i's branch_name is the i-th such name,
\* trimmed
C1_OneRecordPerName ==
    (Returned /\ Fetched) =>
        /\ Len(results) = Len(RequestedNames)
        /\ \A i \in 1..Len(results) : results[i].branch_name = RequestedNames[i]

\* a scrape of the same padded name twice has returned two records of that name
C1_Witness ==
    /\ pc = "returned"
    /\ Fetched
    /\ branch_names_arg = <<T_MainBranchPadded, T_MainBranchPadded>>
    /\ Len(results) = 2
    /\ results[1].branch_name = T_MainBranch
    /\ results[2].branch_name = T_MainBranch

\* the branch records so far (an error record is none)
BranchRows == {i \in 1..Len(results) : "branch_name" \in DOMAIN results[i]}

\* C2 as stated: in every branch record, address is null iff latitude is null
\* iff longitude is null
C2_NullTogether ==
    \A i \in BranchRows :
        /\ (results[i].address = NoneText) <=> (results[i].latitude = NoneCoord)
        /\ (results[i].latitude = NoneCoord) <=> (results[i].longitude = NoneCoord)

\* C2 amended: in every branch record, latitude and longitude are null together
\* or filled together; they are filled exactly when the geocoder found the
\* address' coordinate, and address is null exactly when no address was found
\* for the branch (the geocoder was not asked); so address is filled and both
\* coordinates are null when the geocoder found nothing or raised
C2_CoordinatesTogether ==
    \A i \in BranchRows :
        /\ (results[i].latitude = NoneCoord) <=> (results[i].longitude = NoneCoord)
        /\ (results[i].address = NoneText) <=> (geo_outcomes[i] = "skipped")
        /\ (results[i].latitude # NoneCoord) <=> (geo_outcomes[i] = "found")

\* a record with an address and no coordinates, after the geocoder found nothing
C2_Witness ==
    \E i \in BranchRows :
        /\ geo_outcomes[i] = "not_found"
        /\ results[i].address = T_FullAddress
        /\ results[i].latitude = NoneCoord
        /\ results[i].longitude = NoneCoord

\* the fetch failed: names were requested, scrape_branches has returned and
\* there is no parsed page
FetchFailed == Returned /\ branch_names # <<>> /\ ~Fetched

\* C3: when the fetch fails for a list of names that is not empty,
\* scrape_branches returns exactly one element, an error record, no branch
\* record, and neither the matcher nor the geocoder was called
C3_FetchFailure ==
    FetchFailed =>
        /\ Len(results) = 1
        /\ DOMAIN results[1] = {"error"}
        /\ results[1].error \in FetchErrors
        /\ matcher_calls = 0
        /\ geocode_calls = 0

\* a scrape of two names has returned the one error record of a failed fetch
C3_Witness ==
    /\ pc = "returned"
    /\ Len(branch_names) = 2
    /\ ~Fetched
    /\ results = <<[error |-> "ConnectTimeout"]>>

\* what the geocoder did for row i, as one of GeoOutcomes (any, if not asked)
OutcomeOfRow(i) ==
    IF geo_outcomes[i] = "skipped" THEN CHOOSE o \in GeoOutcomes : TRUE
    ELSE CHOOSE o \in GeoOutcomes : o.kind = geo_outcomes[i]

\* the record branch i gets from the page alone, whatever the other branches do
RowAlone(i) ==
    branch_row(branch_names[i], match_branch_to_address(soup, branch_names[i]),
               OutcomeOfRow(i))

\* C4: failures stay with their branch: no lookup's failure (no branch node, no
\* address, the geocoder finding nothing or raising) leaves scrape_branches as
\* an exception, a scrape over N names on a fetched page returns N records, and
\* each record is the one its branch gets from the page and its own geocoder
\* answer alone
C4_BranchIsolation ==
    /\ pc # "raised"
    /\ (Returned /\ Fetched) =>
          /\ Len(results) = Len(branch_names)
          /\ \A i \in 1..Len(results) : results[i] = RowAlone(i)

\* the geocoder raised for the first branch and the second has its coordinates
C4_Witness ==
    /\ pc = "returned"
    /\ Fetched
    /\ Len(results) = 2
    /\ geo_outcomes = <<"exception", "found">>
    /\ results[1].latitude = NoneCoord
    /\ results[2].latitude # NoneCoord

(***************************************************************************)
(* Properties of match_branch_to_address (SpecMatch)                       *)
(***************************************************************************)
\* C5: the MatchResult returned has address_full empty if and only if street,
\* city, state and zip are all empty
C5_AddressIffParsed ==
    pc = "done" =>
        ((out.address_full = <<>>)
            <=> (out.street = <<>> /\ out.city = <<>> /\ out.state = <<>> /\ out.zip = <<>>))

\* an address was found and parsed into a street, a city, a state and a zip
C5_Witness ==
    /\ pc = "done"
    /\ out.address_full = T_FullAddress
    /\ out.street = T_Street
    /\ out.city # <<>>
    /\ out.state # <<>>
    /\ out.zip # <<>>

\* scope.get_text(separator=" ", strip=True).strip(), line 216
FullText(scope) == Strip(get_text(soup, scope, <<" ">>, TRUE))

\* text is the text of a candidate block of the scope that scores at least 8
\* there (the label bonus included), or what the patterns extract from the
\* scope's full text, scoring at least 8
ClearsGate(scope, text) ==
    \/ \E k \in 1..Len(CandidateTags(soup, scope)) :
          /\ CandidateText(soup, CandidateTags(soup, scope)[k]) = text
          /\ score_address_candidate(text, HasLabel(soup, CandidateTags(soup, scope)[k]))
                >= MIN_ADDRESS_SCORE
    \/ /\ extract_address_from_full_text(FullText(scope)) = text
       /\ score_address_candidate(text, FALSE) >= MIN_ADDRESS_SCORE

\* C7: any text _find_address_in_scope returns, from a candidate block or from
\* the extraction on the full text, has an address score of at least 8
C7_MinimumScoreGate ==
    \A k \in 1..Len(finds) : finds[k] # <<>> => ClearsGate(searched[k], finds[k])

\* the search returned "Ayr, IL 62701", a block that scores 6 and is lifted to
\* 10 by the "Address:" label before it
C7_Witness ==
    /\ pc = "done"
    /\ finds = <<T_CityStateZip>>
    /\ score_address_candidate(T_CityStateZip, FALSE) < MIN_ADDRESS_SCORE
    /\ score_address_candidate(T_CityStateZip, TRUE) >= MIN_ADDRESS_SCORE

\* the tie-break as stated, between the extracted address and the best block
TieBreakAsStated(extracted, best_text) ==
    IF HasZip(extracted) /\ (best_text = <<>> \/ ~HasZip(best_text)) THEN extracted
    ELSE IF ~HasZip(extracted) /\ best_text = <<>> THEN extracted
    ELSE best_text

\* the k-th search was of a scope whose full text has at least 15 characters
\* and yields an extracted address
HasExtracted(k) ==
    /\ searched[k] # 0
    /\ Len(FullText(searched[k])) >= 15
    /\ extract_address_from_full_text(FullText(searched[k])) # <<>>

\* C8 as stated: for a scope whose full text has at least 15 characters and
\* yields an extracted address, the extracted address is returned if it has a
\* ZIP code and the best block has none (or there is no block), also if it has
\* no ZIP code and there is no block; the best block in every other case
C8_TieBreakAsStated ==
    \A k \in 1..Len(finds) :
        HasExtracted(k) =>
            finds[k] = TieBreakAsStated(extract_address_from_full_text(FullText(searched[k])),
                                        best_node_candidate(soup, searched[k]))

\* C8 amended: the same, for an extracted address that itself scores at least
\* 8 (without the label bonus); an extracted address that scores less is never
\* used, and the best block, or nothing, is returned
C8_TieBreakGated ==
    \A k \in 1..Len(finds) :
        HasExtracted(k) =>
            finds[k] =
                IF score_address_candidate(
                       extract_address_from_full_text(FullText(searched[k])), FALSE)
                     >= MIN_ADDRESS_SCORE
                THEN TieBreakAsStated(extract_address_from_full_text(FullText(searched[k])),
                                      best_node_candidate(soup, searched[k]))
                ELSE best_node_candidate(soup, searched[k])

\* street and city in two blocks: the best block is the street, without ZIP
\* code, and the address extracted from the full text, with it, was returned
C8_Witness ==
    /\ Len(finds) >= 1
    /\ HasExtracted(1)
    /\ best_node_candidate(soup, searched[1]) = T_Street
    /\ finds[1] = extract_address_from_full_text(FullText(searched[1]))
    /\ HasZip(finds[1])

\* C10: the container is searched first; its next element sibling is searched
\* only after that search returned nothing, and only if there is a container;
\* an address found in the container is never replaced; when neither search
\* finds an address the result has matched_branch_name and no address field
C10_SearchOrder ==
    /\ Len(searched) <= 2
    /\ Len(finds) = Len(searched)
    /\ pc \in {"sibling", "finish", "done"} /\ branch_node # 0 => Len(searched) >= 1
    /\ Len(searched) >= 1 => searched[1] = branch_container
    /\ Len(searched) = 2 =>
          /\ finds[1] = <<>>
          /\ branch_container # 0
          /\ searched[2] # 0
          /\ searched[2] = next_element_sibling(soup, branch_container)
    /\ (Len(finds) >= 1 /\ finds[1] # <<>>) => address_found = finds[1]
    /\ (pc = "done" /\ branch_node # 0 /\ \A k \in 1..Len(finds) : finds[k] = <<>>) =>
          /\ out.matched_branch_name # <<>>
          /\ out.address_full = <<>>
          /\ out.street = <<>>
          /\ out.city = <<>>
          /\ out.state = <<>>
          /\ out.zip = <<>>

\* the container gave nothing, its sibling after the whitespace was searched
\* next and its address is in the result
C10_Witness ==
    /\ pc = "done"
    /\ Len(searched) = 2
    /\ finds[1] = <<>>
    /\ soup[searched[2] - 1].kind = "text"
    /\ finds[2] = T_FullAddress
    /\ out.address_full = T_FullAddress

(***************************************************************************)
(* Properties of _find_branch_node (SpecLocate)                            *)
(***************************************************************************)
\* the normalized text of element n is the normalized target
ExactText(n) == normalize(get_candidate_text(soup, n)) = normalize(target)

\* the locator returned a node whose normalized text is the normalized target
ReturnedExact == branch_node # 0 /\ ExactText(branch_node)

\* C6 as stated: if some element's normalized text equals the normalized
\* target, the locator returns a node whose normalized text equals it
C6_ExactShortCircuit ==
    (pc # "locate" /\ \E n \in 2..Len(soup) : IsTag(soup, n) /\ ExactText(n))
        => ReturnedExact

\* C6 amended: if the normalized target is not empty and some candidate
\* element (heading-like by tag or class, its text not empty and at most 200
\* characters) has a normalized text equal to it, the locator returns a node
\* whose normalized text equals the normalized target, wherever that element
\* is among the fuzzy matches
C6_ExactCandidateShortCircuit ==
    (/\ pc # "locate"
     /\ normalize(target) # <<>>
     /\ \E n \in 2..Len(soup) : IsHeadingCandidate(soup, n) /\ ExactText(n))
        => ReturnedExact

\* a fuzzy match that is shorter comes first and the exact match after it was
\* returned
C6_Witness ==
    /\ pc # "locate"
    /\ Len(soup) = 5
    /\ soup[3].text = T_BranchMain
    /\ fuzzy_match(target, T_BranchMain)
    /\ branch_node = 4
    /\ ExactText(4)

(***************************************************************************)
(* Properties of _find_branch_container (SpecContainer)                    *)
(***************************************************************************)
RECURSIVE AncestorsBelowBody(_)
\* the proper ancestors of node n, the nearest first, up to the first that is
\* html or body and without it
AncestorsBelowBody(n) ==
    IF n = 0 \/ ParentOf(soup, n) = 0 \/ soup[ParentOf(soup, n)].name \in {"html", "body"}
    THEN <<>>
    ELSE <<ParentOf(soup, n)>> \o AncestorsBelowBody(ParentOf(soup, n))

\* ancestor a is container-like and its text is more than 5 characters longer
\* than the heading's
HoldsMore(a) ==
    /\ is_container_like(soup, a)
    /\ Len(Strip(get_text(soup, a, <<" ">>, TRUE)))
          > Len(get_candidate_text(soup, branch_node)) + 5

\* the nearest ancestor below html/body that is container-like and holds more
\* than the heading; else the immediate parent, or None if it is html or body
\* or absent
NearestContainer ==
    LET up == AncestorsBelowBody(branch_node)
        good == {j \in 1..Len(up) : HoldsMore(up[j])}
    IN  IF good # {} THEN up[CHOOSE j \in good : \A i \in good : j <= i]
        ELSE IF up # <<>> THEN up[1]
        ELSE 0

\* C9: _find_branch_container returns the nearest proper ancestor below
\* html/body that is container-like and holds more than 5 characters beyond
\* the heading text; if there is none, the immediate parent, or none when the
\* parent is html or body or absent; never html, body or the node itself
C9_NearestContainer ==
    pc = "search" =>
        /\ branch_container = NearestContainer
        /\ branch_container # 0 =>
              /\ soup[branch_container].name \notin {"html", "body"}
              /\ branch_container # branch_node

\* the heading's parent is a card with too little text, the card's parent is a
\* section with enough, and the section was returned
C9_Witness ==
    /\ pc = "search"
    /\ Len(soup) = 7
    /\ branch_node = 4
    /\ soup[3].cls = C_Card
    /\ ~HoldsMore(3)
    /\ soup[2].name = "section"
    /\ branch_container = 2

====
